---------------------------- MODULE Spec2Model ----------------------------
(***************************************************************************)
(* Model of scripts/check_modules.py: the dependency reconciler            *)
(* (update_modules, install, install_pkg_if_necessary, _install, fail) and *)
(* the config-driven launcher (get_config, launch_uvicorn), together with  *)
(* the module-level main program that runs them in sequence.               *)
(*                                                                         *)
(* Python values are modelled as follows.  A dict is a function whose      *)
(* DOMAIN is the set of its keys ("k in d" is k \in DOMAIN d).  A version  *)
(* string of a manifest package is a string; None is the string "None".    *)
(* A torch version string is a record [release, local]: the dotted number  *)
(* before "+" as a tuple and the part after "+" (None when there is none). *)
(* The package environment, the src/ checkouts, the config files and the   *)
(* marker file live outside the process and survive from run to run.       *)
(***************************************************************************)
EXTENDS Integers, Sequences, FiniteSets, TLC

\* ------------------------------------------------------------- bounds
\* Number of leading entries of modules_to_check that the model reconciles.
NumModules == 2
\* Number of times the script is started on the same environment.
MaxRuns == 2

\* ---------------------------------------------------------- constants
None == "None"

\* An empty dict.
EmptyDict == [k \in {} |-> None]

\* The manifest as written in the source (insertion order of the dict).
all_modules_to_check ==
    << [name |-> "rich",        ver |-> "12.6.0"],
       [name |-> "fastapi",     ver |-> "0.115.6"],
       [name |-> "ruamel.yaml", ver |-> "0.17.21"],
       [name |-> "sqlalchemy",  ver |-> "2.0.19"],
       [name |-> "wandb",       ver |-> "0.17.2"],
       [name |-> "torchsde",    ver |-> "0.2.6"],
       [name |-> "basicsr",     ver |-> "1.4.2"],
       [name |-> "gfpgan",      ver |-> "1.3.8"] >>

modules_to_check == SubSeq(all_modules_to_check, 1, NumModules)

ModuleNames == { modules_to_check[i].name : i \in 1..Len(modules_to_check) }

\* A version that is no pin of the manifest (an outdated install).
OtherVersion == "0.0.1"

PinnedVersions == { modules_to_check[i].ver : i \in 1..Len(modules_to_check) }

\* The newest release on the package index, what an unpinned install fetches.
NewestRelease == "99.0.0"

\* What importlib.metadata can report for a manifest package.
InstalledVersions == PinnedVersions \cup {OtherVersion, NewestRelease, None}

\* Launcher defaults.
DefaultBindIp == "127.0.0.1"
DefaultListenPort == 9000
WildcardIp == "0.0.0.0"

LaunchFlag == "--launch-uvicorn"

\* sys.argv of a run: the script name, then the arguments.
Argvs == { <<"check_modules.py">>,
           <<"check_modules.py", LaunchFlag>>,
           <<"check_modules.py", "--help", LaunchFlag>> }

\* The three candidate config paths of get_config.
config_legacy_yaml == "scripts/config.yaml"
config_yaml == "scripts/../config.yaml"
config_json == "scripts/config.json"
ConfigPaths == {config_legacy_yaml, config_yaml, config_json}

\* The two lines launch_uvicorn writes to scripts/install_status.txt.
CheckpointLines == <<"sd_weights_downloaded", "sd_install_complete">>

\* Content the marker file may hold before the first run.
PriorContents == { <<>>, <<"sd_prior_checkpoint">> }

\* ------------------------------------------------- config file contents
ListenPortParts == { EmptyDict, "listen_port" :> 8080 }
ListenToNetworkParts == { EmptyDict, "listen_to_network" :> TRUE,
                          "listen_to_network" :> FALSE }
BindIpParts == { EmptyDict, "bind_ip" :> "192.168.1.5" }

\* Every net section of the recognised schema, all keys optional.
NetSections == { a @@ b @@ c : a \in ListenPortParts,
                               b \in ListenToNetworkParts,
                               c \in BindIpParts }

Configs == { EmptyDict } \cup { "net" :> n : n \in NetSections }

\* A file's content: what the parser makes of it.  parses = FALSE is a file
\* the parser raises on.
FileContents == [ parses : {TRUE}, data : Configs ]
                    \cup { [parses |-> FALSE, data |-> EmptyDict] }

\* A few contents, pairwise different, for the runs of the whole script.
SampleLegacy == [parses |-> TRUE,
                 data |-> "net" :> ("listen_port" :> 8080 @@ "listen_to_network" :> TRUE)]
SampleCanonical == [parses |-> TRUE,
                    data |-> "net" :> ("bind_ip" :> "192.168.1.5")]
SampleJson == [parses |-> TRUE,
               data |-> "net" :> ("listen_to_network" :> FALSE)]

\* File systems: a function from the existing config paths to their content.
FileSystemsOver(legacy, canonical, json) ==
    { l @@ c @@ j : l \in {EmptyDict} \cup { config_legacy_yaml :> x : x \in legacy },
                    c \in {EmptyDict} \cup { config_yaml :> x : x \in canonical },
                    j \in {EmptyDict} \cup { config_json :> x : x \in json } }

VARIABLES
    pc,             \* position of the process
    entry,          \* what is being run: the script, or a call of a function
    run,            \* number of the current run
    argv,           \* sys.argv
    torchruntime,   \* whether the torchruntime package can be imported
    installed,      \* package environment: module name -> version or None
    editable,       \* module names with a src/<name> directory
    idx,            \* position of the manifest loop
    issued,         \* install commands issued in this run, in order
    torch_cmd,      \* what torchruntime.install was asked to do in this run
    fs,             \* the config files: path -> content
    config,         \* the config launch_uvicorn holds
    marker,         \* lines of scripts/install_status.txt
    environ,        \* os.environ entries written by this process
    served,         \* arguments uvicorn.run was called with
    exit_code,      \* exit status of the process, -1 while it runs
    steps,          \* launcher steps taken in this run, in order
    start_installed,\* the package environment when the current run began
    prior,          \* the marker file's content before the first run
    launches,       \* number of runs that wrote the marker so far
    fs_at_load,     \* the config files as get_config found them in this run
    call            \* arguments of the call of install_pkg_if_necessary

vars == << pc, entry, run, argv, torchruntime, installed, editable, idx, issued,
           torch_cmd, fs, config, marker, environ, served, exit_code, steps,
           start_installed, prior, launches, fs_at_load, call >>

\* ------------------------------------------------------- pure helpers
Range(s) == { s[i] : i \in 1..Len(s) }

\* Python's "<" on tuples of integers: lexicographic, a proper prefix is less.
RECURSIVE TupleLess(_, _)
TupleLess(a, b) ==
    IF b = <<>> THEN FALSE
    ELSE IF a = <<>> THEN TRUE
    ELSE IF Head(a) # Head(b) THEN Head(a) < Head(b)
    ELSE TupleLess(Tail(a), Tail(b))

\* The pinned version of a manifest module.
PinOf(name) ==
    LET i == CHOOSE j \in 1..Len(modules_to_check) : modules_to_check[j].name = name
    IN  modules_to_check[i].ver

\* Package environments: each module absent, at its pin, or at another version.
InstalledStates ==
    { f \in [ModuleNames -> InstalledVersions] :
        \A n \in ModuleNames : f[n] \in {PinOf(n), OtherVersion, None} }

\* version(module_name): the installed version, None when pkg_version raises.
version(module_name) == installed[module_name]

\* version_str_to_tuple(ver_str): drop "+local", keep the dotted integers.
version_str_to_tuple(ver_str) == ver_str.release

\* get_allowed_versions: a str becomes a one-element tuple; latest is the last.
\* Every value of modules_to_check is a str.
get_allowed_versions(module_name, allowed_versions) ==
    LET t == <<allowed_versions>>
    IN  [allowed |-> t, latest |-> t[Len(t)]]

\* A reconciler that overlooks the editable checkout.
is_editable_never(module_name) == FALSE

\* os.path.exists(f"src/{module_name}")
is_editable(module_name) == module_name \in editable

\* A reconciler that reinstalls without comparing versions.
requires_install_always(module_name, allowed_versions) == TRUE

\* requires_install = version(module_name) not in allowed_versions
requires_install(module_name, allowed_versions) ==
    version(module_name) \notin Range(allowed_versions)

\* What the pip command of install()/_install() leaves in the environment.
\* install: "pip install --upgrade name==version" puts that version in place
\* when it succeeds.  _install without a version: "pip install name" installs
\* a release only when the package is absent.
PipEffect(env, name, ver, outcome) ==
    IF outcome # "ok" THEN env
    ELSE IF ver # None THEN [env EXCEPT ![name] = ver]
    ELSE IF env[name] = None THEN [env EXCEPT ![name] = NewestRelease]
    ELSE env

\* How a call of install()/_install() can end: the command returns 0, the
\* command returns a non-zero status, or the call raises before returning.
Outcomes == {"ok", "nonzero", "raised"}

\* ------------------------------------------------------- update_modules
\* Torch version strings the environment may report, and interpreter versions.
TorchVersions ==
    { [release |-> <<2, 6, 0>>, local |-> None],
      [release |-> <<2, 6, 0>>, local |-> "cu124"],
      [release |-> <<2, 7, 0>>, local |-> None],
      [release |-> <<2, 7, 0>>, local |-> "cu128"] }

PythonVersions == { <<3, 8, 10>>, <<3, 12, 3>> }

\* is_cpu_torch = "+" not in torch_version_str
is_cpu_torch(torch_version_str) == torch_version_str.local = None

\* The process ends with the given status.
Exit(status) ==
    /\ pc' = "exited"
    /\ exit_code' = status

\* "import torchruntime" at the head of update_modules.  A missing package
\* raises ImportError, which nothing catches: the interpreter prints the
\* traceback and ends with status 1.
ImportTorchruntime ==
    /\ pc = "update_modules"
    /\ IF torchruntime
          THEN pc' = "torch_pass" /\ UNCHANGED exit_code
          ELSE Exit(1)
    /\ UNCHANGED << entry, run, argv, torchruntime, installed, editable, idx, issued,
                    torch_cmd, fs, config, marker, environ, served, steps,
                    start_installed, prior, launches, fs_at_load, call >>

\* The torch block.  torch_present says whether version("torch") is not None,
\* blackwell whether a device name of get_gpus() matches BLACKWELL_DEVICES.
TorchPass ==
    /\ pc = "torch_pass"
    /\ \E torch_present \in BOOLEAN, torch_version_str \in TorchVersions,
          blackwell \in BOOLEAN, version_info \in PythonVersions :
          IF ~torch_present
            THEN /\ torch_cmd' = "install"
                 /\ pc' = "loop"
                 /\ UNCHANGED exit_code
            ELSE LET torch_version == version_str_to_tuple(torch_version_str) IN
                 IF (TupleLess(torch_version, <<2, 7>>) \/ is_cpu_torch(torch_version_str))
                    /\ blackwell
                   THEN IF TupleLess(version_info, <<3, 9>>)
                          THEN /\ Exit(0)           \* sys.exit()
                               /\ UNCHANGED torch_cmd
                          ELSE /\ torch_cmd' = "force_upgrade"
                               /\ pc' = "loop"
                               /\ UNCHANGED exit_code
                   ELSE /\ pc' = "loop"
                        /\ UNCHANGED << torch_cmd, exit_code >>
    /\ UNCHANGED << entry, run, argv, torchruntime, installed, editable, idx, issued,
                    fs, config, marker, environ, served, steps,
                    start_installed, prior, launches, fs_at_load, call >>

\* One iteration of the manifest loop on an entry in editable mode: continue.
SkipEditable ==
    /\ pc = "loop"
    /\ idx <= Len(modules_to_check)
    /\ is_editable(modules_to_check[idx].name)
    /\ idx' = idx + 1
    /\ UNCHANGED << pc, entry, run, argv, torchruntime, installed, editable, issued,
                    torch_cmd, fs, config, marker, environ, served, exit_code, steps,
                    start_installed, prior, launches, fs_at_load, call >>

\* One iteration on an entry whose installed version is allowed: nothing to do.
KeepModule ==
    /\ pc = "loop"
    /\ idx <= Len(modules_to_check)
    /\ LET module_name == modules_to_check[idx].name
           av == get_allowed_versions(module_name, modules_to_check[idx].ver)
       IN  /\ ~is_editable(module_name)
           /\ ~requires_install(module_name, av.allowed)
    /\ idx' = idx + 1
    /\ UNCHANGED << pc, entry, run, argv, torchruntime, installed, editable, issued,
                    torch_cmd, fs, config, marker, environ, served, exit_code, steps,
                    start_installed, prior, launches, fs_at_load, call >>

\* One iteration on an entry that requires an install.  install() runs the
\* command with os.system and drops its return value, so a non-zero status
\* goes unnoticed: the loop goes on (after the warning of lines 96-99, when
\* the version is still not the latest one).  Only an exception raised by
\* install() reaches the except clause, which calls fail(): exit(1).
InstallModule ==
    /\ pc = "loop"
    /\ idx <= Len(modules_to_check)
    /\ LET module_name == modules_to_check[idx].name
           av == get_allowed_versions(module_name, modules_to_check[idx].ver)
       IN  /\ ~is_editable(module_name)
           /\ requires_install(module_name, av.allowed)
           /\ \E outcome \in Outcomes :
                /\ issued' = Append(issued, [fn |-> "install", i |-> idx,
                                             name |-> module_name,
                                             found |-> version(module_name),
                                             ver |-> av.latest, outcome |-> outcome])
                /\ installed' = PipEffect(installed, module_name, av.latest, outcome)
                /\ IF outcome = "raised"
                     THEN /\ Exit(1)               \* fail(module_name)
                          /\ UNCHANGED idx
                     ELSE /\ idx' = idx + 1
                          /\ UNCHANGED << pc, exit_code >>
    /\ UNCHANGED << entry, run, argv, torchruntime, editable,
                    torch_cmd, fs, config, marker, environ, served, steps,
                    start_installed, prior, launches, fs_at_load, call >>

\* ----------------------------------------------------------------- main
\* A main program that accepts the flag at any position.
should_launch_anywhere(args) == \E i \in 2..Len(args) : args[i] = LaunchFlag

\* len(sys.argv) > 1 and sys.argv[1] == "--launch-uvicorn"
should_launch(args) == Len(args) > 1 /\ args[2] = LaunchFlag

\* update_modules returns (after logging modules_to_log) and the flag is not
\* given: the script ends, the interpreter exits with status 0.
FinishWithoutLaunch ==
    /\ pc = "loop"
    /\ idx > Len(modules_to_check)
    /\ ~should_launch(argv)
    /\ Exit(0)
    /\ UNCHANGED << entry, run, argv, torchruntime, installed, editable, idx, issued,
                    torch_cmd, fs, config, marker, environ, served, steps,
                    start_installed, prior, launches, fs_at_load, call >>

\* update_modules returns and the flag is given: launch_uvicorn is called.
EnterLaunch ==
    /\ pc = "loop"
    /\ idx > Len(modules_to_check)
    /\ should_launch(argv)
    /\ pc' = "get_config"
    /\ UNCHANGED << entry, run, argv, torchruntime, installed, editable, idx, issued,
                    torch_cmd, fs, config, marker, environ, served, exit_code, steps,
                    start_installed, prior, launches, fs_at_load, call >>

\* ------------------------------------------------------------- launcher
\* A migration that leaves an existing canonical file alone and only removes
\* the legacy one.
move_legacy_keep(files) ==
    IF config_legacy_yaml \in DOMAIN files
      THEN [ p \in (DOMAIN files \ {config_legacy_yaml}) \cup {config_yaml} |->
               IF p = config_yaml /\ config_yaml \notin DOMAIN files
                 THEN files[config_legacy_yaml] ELSE files[p] ]
      ELSE files

\* shutil.move(config_legacy_yaml, config_yaml) when the legacy file exists:
\* the legacy file takes the canonical path, replacing a file already there.
move_legacy(files) ==
    IF config_legacy_yaml \in DOMAIN files
      THEN [ p \in (DOMAIN files \ {config_legacy_yaml}) \cup {config_yaml} |->
               IF p = config_yaml THEN files[config_legacy_yaml] ELSE files[p] ]
      ELSE files

\* yaml.load / json.load inside try/except: a parse error leaves config None,
\* which becomes {} at the end of get_config.
parse_file(content) == IF content.parses THEN content.data ELSE EmptyDict

\* The if/elif of get_config on the files left by the move.
read_config(files) ==
    IF config_yaml \in DOMAIN files THEN parse_file(files[config_yaml])
    ELSE IF config_json \in DOMAIN files THEN parse_file(files[config_json])
    ELSE EmptyDict

\* A marker opened with "w": the file is rewritten.
write_marker_truncating(lines) == CheckpointLines

\* open("scripts/install_status.txt", "a") and the two writes.
write_marker(lines) == lines \o CheckpointLines

\* listen_port as launch_uvicorn derives it.
listen_port_of(cfg) ==
    IF "net" \in DOMAIN cfg /\ "listen_port" \in DOMAIN cfg["net"]
      THEN cfg["net"]["listen_port"]
      ELSE DefaultListenPort

\* A derivation that takes net.bind_ip without looking at listen_to_network.
bind_ip_of_unguarded(cfg) ==
    IF "net" \in DOMAIN cfg /\ "bind_ip" \in DOMAIN cfg["net"]
      THEN cfg["net"]["bind_ip"]
      ELSE IF /\ "net" \in DOMAIN cfg
              /\ "listen_to_network" \in DOMAIN cfg["net"]
              /\ cfg["net"]["listen_to_network"] = TRUE
        THEN WildcardIp
        ELSE DefaultBindIp

\* bind_ip as launch_uvicorn derives it.
bind_ip_of(cfg) ==
    IF /\ "net" \in DOMAIN cfg
       /\ "listen_to_network" \in DOMAIN cfg["net"]
       /\ cfg["net"]["listen_to_network"] = TRUE
      THEN IF "bind_ip" \in DOMAIN cfg["net"] THEN cfg["net"]["bind_ip"] ELSE WildcardIp
      ELSE DefaultBindIp

\* PYTHONPATH as set from INSTALL_ENV_DIR, by operating system.
python_path(os_name) ==
    IF os_name = "Windows" THEN "$INSTALL_ENV_DIR/lib/site-packages"
    ELSE "$INSTALL_ENV_DIR/lib/python3.12/site-packages"

OsNames == {"Windows", "Linux"}

\* config = get_config()
GetConfig ==
    /\ pc = "get_config"
    /\ fs_at_load' = fs
    /\ fs' = move_legacy(fs)
    /\ config' = read_config(fs')
    /\ steps' = Append(steps, "config")
    /\ pc' = "write_marker"
    /\ UNCHANGED << entry, run, argv, torchruntime, installed, editable, idx, issued,
                    torch_cmd, marker, environ, served, exit_code,
                    start_installed, prior, launches, call >>

\* The with-block appending the checkpoint lines to the marker file.
WriteMarker ==
    /\ pc = "write_marker"
    /\ marker' = write_marker(marker)
    /\ launches' = launches + 1
    /\ steps' = Append(steps, "marker")
    /\ pc' = "prepare_env"
    /\ UNCHANGED << entry, run, argv, torchruntime, installed, editable, idx, issued,
                    torch_cmd, fs, config, environ, served, exit_code,
                    start_installed, prior, fs_at_load, call >>

\* torchruntime.configure(), then os.environ["PYTHONPATH"] and ["SD_UI_PATH"].
PrepareEnv ==
    /\ pc = "prepare_env"
    /\ \E os_name \in OsNames :
          environ' = ("PYTHONPATH" :> python_path(os_name)) @@ ("SD_UI_PATH" :> "$PWD/ui")
    /\ steps' = Append(steps, "env")
    /\ pc' = "run_uvicorn"
    /\ UNCHANGED << entry, run, argv, torchruntime, installed, editable, idx, issued,
                    torch_cmd, fs, config, marker, served, exit_code,
                    start_installed, prior, launches, fs_at_load, call >>

\* The bind parameters are derived and uvicorn.run is called; it does not return.
RunUvicorn ==
    /\ pc = "run_uvicorn"
    /\ served' = << [host |-> bind_ip_of(config), port |-> listen_port_of(config),
                     app_dir |-> environ["SD_UI_PATH"]] >>
    /\ steps' = Append(steps, "serve")
    /\ pc' = "serving"
    /\ UNCHANGED << entry, run, argv, torchruntime, installed, editable, idx, issued,
                    torch_cmd, fs, config, marker, environ, exit_code,
                    start_installed, prior, launches, fs_at_load, call >>

\* ------------------------------------------- install_pkg_if_necessary
\* A call install_pkg_if_necessary(pkg_name, required_version); a
\* required_version of None asks for the latest release.  _install drops the
\* status of os.system as install does; an exception it raises propagates.
InstallPkgIfNecessary ==
    /\ pc = "install_pkg_if_necessary"
    /\ \E pkg_name \in ModuleNames :
       \E required_version \in {PinOf(pkg_name), None}, outcome \in Outcomes :
          /\ call' = << [pkg_name |-> pkg_name, required_version |-> required_version] >>
          /\ IF is_editable(pkg_name)
               THEN /\ pc' = "returned"
                    /\ UNCHANGED << issued, installed >>
               ELSE IF version(pkg_name) # required_version
                 THEN /\ issued' = Append(issued, [fn |-> "_install", i |-> 0,
                                                   name |-> pkg_name,
                                                   found |-> version(pkg_name),
                                                   ver |-> required_version,
                                                   outcome |-> outcome])
                      /\ installed' = PipEffect(installed, pkg_name, required_version, outcome)
                      /\ pc' = IF outcome = "raised" THEN "raised" ELSE "returned"
                 ELSE /\ pc' = "returned"
                      /\ UNCHANGED << issued, installed >>
    /\ UNCHANGED << entry, run, argv, torchruntime, editable, idx,
                    torch_cmd, fs, config, marker, environ, served, exit_code, steps,
                    start_installed, prior, launches, fs_at_load >>

\* ------------------------------------------------------------ the runs
\* The script is started again on the environment the last run left.
NewRun ==
    /\ entry = "script"
    /\ pc \in {"exited", "serving"}
    /\ run < MaxRuns
    /\ run' = run + 1
    /\ argv' \in Argvs
    /\ pc' = "update_modules"
    /\ idx' = 1
    /\ issued' = <<>>
    /\ torch_cmd' = "none"
    /\ config' = EmptyDict
    /\ environ' = EmptyDict
    /\ served' = <<>>
    /\ exit_code' = -1
    /\ steps' = <<>>
    /\ start_installed' = installed
    /\ fs_at_load' = EmptyDict
    /\ UNCHANGED << entry, torchruntime, installed, editable, fs, marker, prior,
                    launches, call >>

\* What every start of the process or of a call has in common.
Fresh ==
    /\ run = 1
    /\ idx = 1
    /\ issued = <<>>
    /\ torch_cmd = "none"
    /\ config = EmptyDict
    /\ environ = EmptyDict
    /\ served = <<>>
    /\ exit_code = -1
    /\ steps = <<>>
    /\ start_installed = installed
    /\ prior = marker
    /\ launches = 0
    /\ fs_at_load = EmptyDict
    /\ call = <<>>

\* The script is run on some environment.
InitScript ==
    /\ entry = "script"
    /\ pc = "update_modules"
    /\ argv \in Argvs
    /\ torchruntime \in BOOLEAN
    /\ installed \in InstalledStates
    /\ editable \in SUBSET ModuleNames
    /\ fs \in FileSystemsOver({SampleLegacy}, {SampleCanonical}, {SampleJson})
    /\ marker \in PriorContents
    /\ Fresh

\* install_pkg_if_necessary is called on some environment.
InitCall ==
    /\ entry = "call"
    /\ pc = "install_pkg_if_necessary"
    /\ argv = <<"check_modules.py">>
    /\ torchruntime = TRUE
    /\ installed \in InstalledStates
    /\ editable \in SUBSET ModuleNames
    /\ fs = EmptyDict
    /\ marker = <<>>
    /\ Fresh

Init == InitScript \/ InitCall

Next ==
    \/ ImportTorchruntime
    \/ TorchPass
    \/ SkipEditable
    \/ KeepModule
    \/ InstallModule
    \/ FinishWithoutLaunch
    \/ EnterLaunch
    \/ GetConfig
    \/ WriteMarker
    \/ PrepareEnv
    \/ RunUvicorn
    \/ InstallPkgIfNecessary
    \/ NewRun

Spec == Init /\ [][Next]_vars

\* launch_uvicorn is called, after a reconciliation that found every module
\* in place, on every set of config files of the recognised schema.
InitLaunch ==
    /\ entry = "launch"
    /\ pc = "get_config"
    /\ argv = <<"check_modules.py", LaunchFlag>>
    /\ torchruntime = TRUE
    /\ installed = [n \in ModuleNames |-> PinOf(n)]
    /\ editable = {}
    /\ fs \in FileSystemsOver(FileContents, FileContents, FileContents)
    /\ marker \in PriorContents
    /\ Fresh

NextLaunch ==
    \/ GetConfig
    \/ WriteMarker
    \/ PrepareEnv
    \/ RunUvicorn

SpecLaunch == InitLaunch /\ [][NextLaunch]_vars

\* =====================================================================
\* Properties
\* =====================================================================
AllProcessed == idx > Len(modules_to_check)

FlagGiven == Len(argv) > 1 /\ argv[2] = "--launch-uvicorn"

AllPinned(env) == \A i \in 1..Len(modules_to_check) :
                     env[modules_to_check[i].name] = modules_to_check[i].ver

LaunchOrder == << "config", "marker", "env", "serve" >>

RECURSIVE Copies(_, _)
Copies(lines, n) == IF n = 0 THEN <<>> ELSE lines \o Copies(lines, n - 1)

\* C1: when the command of an install action of the manifest loop returns a
\* non-zero status, the reconciliation stops at that entry (no later entry is
\* reached, no later install is issued) and the process has exited with
\* status 1.
C1_FailedInstallHalts ==
    \A k \in DOMAIN issued :
        (issued[k].fn = "install" /\ issued[k].outcome = "nonzero")
            => /\ k = Len(issued)
               /\ idx = issued[k].i
               /\ pc = "exited"
               /\ exit_code = 1

\* C2: update_modules issues an install action for a manifest entry only when
\* the version found for it, as the entry is reached, is not its pinned
\* version; and a run that starts with every entry at its pinned version
\* issues no manifest install action at all.
C2_NoInstallWhenPinned ==
    /\ \A k \in DOMAIN issued :
          issued[k].fn = "install"
             => issued[k].found # modules_to_check[issued[k].i].ver
    /\ (entry = "script" /\ AllPinned(start_installed)) => issued = <<>>

\* C2 witness: a second run over an environment with every entry at its pin
\* has gone through the whole manifest and ended without any install.
C2_Witness ==
    /\ entry = "script"
    /\ run = 2
    /\ editable = {}
    /\ AllPinned(start_installed)
    /\ AllProcessed
    /\ pc = "exited"
    /\ exit_code = 0
    /\ issued = <<>>

\* C3: a step of the manifest loop on an entry with a local editable checkout
\* issues no install, leaves the environment alone and moves on to the next
\* entry; a call of install_pkg_if_necessary for such a package issues no
\* install and returns.
C3_EditableNeverInstalled ==
    [][ /\ (pc = "loop" /\ idx <= Len(modules_to_check)
             /\ modules_to_check[idx].name \in editable)
           => (issued' = issued /\ installed' = installed
               /\ pc' = "loop" /\ idx' = idx + 1)
        /\ (pc = "install_pkg_if_necessary" /\ call' # <<>>
             /\ call'[1].pkg_name \in editable)
           => (issued' = issued /\ installed' = installed /\ pc' = "returned")
      ]_vars

\* C3 witness: the first entry is in editable mode and not at its pin, the
\* loop has passed it without an install and has installed the second entry.
C3_Witness ==
    /\ entry = "script"
    /\ modules_to_check[1].name \in editable
    /\ installed[modules_to_check[1].name] # modules_to_check[1].ver
    /\ AllProcessed
    /\ issued # <<>>
    /\ \A k \in DOMAIN issued : issued[k].i > 1

\* C4 as stated: with both the legacy and the canonical file present,
\* get_config returns the content of the canonical file, and the legacy path
\* is gone afterwards.
C4_CanonicalContentRead ==
    ("config" \in Range(steps)
       /\ config_legacy_yaml \in DOMAIN fs_at_load
       /\ config_yaml \in DOMAIN fs_at_load)
    => /\ config = (IF fs_at_load[config_yaml].parses
                      THEN fs_at_load[config_yaml].data ELSE EmptyDict)
       /\ config_legacy_yaml \notin DOMAIN fs

\* C4 amended: with both the legacy and the canonical file present,
\* get_config moves the legacy file onto the canonical path, replacing the
\* file that was there, and returns the content of the former legacy file
\* (the empty mapping when it does not parse): the legacy path is gone, the
\* other files are untouched, and the result is the content of that one file.
C4_LegacyContentRead ==
    ("config" \in Range(steps)
       /\ config_legacy_yaml \in DOMAIN fs_at_load
       /\ config_yaml \in DOMAIN fs_at_load)
    => /\ config = (IF fs_at_load[config_legacy_yaml].parses
                      THEN fs_at_load[config_legacy_yaml].data ELSE EmptyDict)
       /\ config_legacy_yaml \notin DOMAIN fs
       /\ config_yaml \in DOMAIN fs
       /\ fs[config_yaml] = fs_at_load[config_legacy_yaml]
       /\ \A p \in DOMAIN fs_at_load \ {config_legacy_yaml, config_yaml} :
             p \in DOMAIN fs /\ fs[p] = fs_at_load[p]

\* C4 witness: both files were present with different parsable contents and
\* get_config has returned the legacy one.
C4_Witness ==
    /\ "config" \in Range(steps)
    /\ config_legacy_yaml \in DOMAIN fs_at_load
    /\ config_yaml \in DOMAIN fs_at_load
    /\ fs_at_load[config_legacy_yaml].parses
    /\ fs_at_load[config_yaml].parses
    /\ fs_at_load[config_legacy_yaml].data # fs_at_load[config_yaml].data
    /\ config = fs_at_load[config_legacy_yaml].data

\* C5: the server is started on port net.listen_port when present, else 9000,
\* and on host 127.0.0.1 unless net.listen_to_network is true, when the host
\* is net.bind_ip when present, else 0.0.0.0.  An empty config gives
\* 127.0.0.1:9000; {net: {listen_port: 8080, listen_to_network: true}} gives
\* 0.0.0.0:8080; without listen_to_network = true the host is the loopback.
C5_BindParameters ==
    served # <<>> =>
      LET net == IF "net" \in DOMAIN config THEN config["net"] ELSE EmptyDict
          listens == IF "listen_to_network" \in DOMAIN net
                       THEN net["listen_to_network"] ELSE FALSE
          port == IF "listen_port" \in DOMAIN net THEN net["listen_port"] ELSE 9000
          host == IF listens
                    THEN IF "bind_ip" \in DOMAIN net THEN net["bind_ip"] ELSE "0.0.0.0"
                    ELSE "127.0.0.1"
      IN  /\ served[1].port = port
          /\ served[1].host = host
          /\ config = EmptyDict
                => (served[1].host = "127.0.0.1" /\ served[1].port = 9000)
          /\ config = "net" :> ("listen_port" :> 8080 @@ "listen_to_network" :> TRUE)
                => (served[1].host = "0.0.0.0" /\ served[1].port = 8080)
          /\ ~listens => served[1].host = "127.0.0.1"

\* C5 witness: the server runs on the wildcard address and port 8080 for the
\* config {net: {listen_port: 8080, listen_to_network: true}}.
C5_Witness ==
    /\ pc = "serving"
    /\ config = "net" :> ("listen_port" :> 8080 @@ "listen_to_network" :> TRUE)
    /\ served[1].host = "0.0.0.0"
    /\ served[1].port = 8080

\* C6: the marker file always holds the content it had before the first run,
\* followed by one copy of the two checkpoint lines for every run that got
\* through the launch preparation.
C6_MarkerAppended ==
    /\ marker = prior \o Copies(<<"sd_weights_downloaded", "sd_install_complete">>,
                                 launches)
    /\ launches <= run
    /\ pc \in {"prepare_env", "run_uvicorn", "serving"}
          => (launches >= 1 /\ "marker" \in Range(steps))

\* C6 witness: two runs have launched over a marker file that was not empty.
C6_Witness ==
    /\ prior # <<>>
    /\ launches = 2
    /\ pc = "serving"
    /\ Len(marker) = Len(prior) + 4

\* C7: after a call of install_pkg_if_necessary with required_version None
\* for a package without an editable checkout, an install without a version
\* pin has been issued, whatever the installed state.
C7_LatestAlwaysInstalled ==
    (call # <<>> /\ call[1].required_version = None
       /\ call[1].pkg_name \notin editable)
    => \E k \in DOMAIN issued :
          /\ issued[k].fn = "_install"
          /\ issued[k].name = call[1].pkg_name
          /\ issued[k].ver = None

\* C8: the launcher steps of a run are a prefix of: config loaded, marker
\* written, environment variables set, server started; none is taken before
\* the manifest loop has passed every entry, nor unless the flag is the first
\* argument; the server runs only after all of them, with the config loaded
\* and both environment variables set; a run without the flag loads no
\* config, sets no variable and starts no server.
C8_ReconcileThenLaunch ==
    /\ Len(steps) <= Len(LaunchOrder)
    /\ steps = SubSeq(LaunchOrder, 1, Len(steps))
    /\ steps # <<>> => (AllProcessed /\ FlagGiven /\ exit_code = -1)
    /\ pc \in {"write_marker", "prepare_env", "run_uvicorn", "serving"}
          => steps # <<>>
    /\ (pc = "serving" \/ served # <<>>)
          => /\ steps = LaunchOrder
             /\ {"PYTHONPATH", "SD_UI_PATH"} \subseteq DOMAIN environ
             /\ config = read_config(fs)
    /\ ~FlagGiven
          => /\ steps = <<>>
             /\ served = <<>>
             /\ environ = EmptyDict
             /\ fs_at_load = EmptyDict
             /\ launches < run

\* C8 witness: a run has installed a module, then launched the server.
C8_Witness ==
    /\ pc = "serving"
    /\ steps = LaunchOrder
    /\ issued # <<>>
    /\ served # <<>>

\* C9: when torchruntime cannot be imported, the run still takes the manifest
\* loop through every entry and does not end with a fatal error.
C9_MissingProbeNonFatal ==
    (entry = "script" /\ ~torchruntime /\ pc = "exited")
    => (AllProcessed /\ exit_code = 0)

\* C10: the process exits with status 0 only after the manifest loop has
\* passed every entry and no install action has failed.
C10_ExitZeroOnlyOnSuccess ==
    (pc = "exited" /\ exit_code = 0)
    => /\ AllProcessed
       /\ \A k \in DOMAIN issued : issued[k].outcome = "ok"

=============================================================================
